---- MODULE Spec2Model ----
(***************************************************************************)
(* Model of renterd's SQL store (package stores): the host database fed    *)
(* by consensus changes (ProcessConsensusChange, insertAnnouncements,      *)
(* updateCCID), host lookups (Host) and interaction recording              *)
(* (RecordHostInteractions), on top of a transactional SQL database.       *)
(***************************************************************************)
EXTENDS Integers, Sequences, FiniteSets, TLC

\* ------------------------------------------------------------------ bounds

\* Number of consensus changes the consensus set produces.
MaxCC == 3
\* Last value of the wall clock.
MaxTime == 3
\* Number of RecordHostInteractions calls.
MaxCalls == 2
\* The maximum ephemeral account balance the hosts advertise.
MaxBalance == 2
\* The funds of the contract the accounts are funded from.
MaxSpending == 3
\* Last block height the chain is mined to.
MaxHeight == 6
\* Number of buffered announcements that forces a flush: the source's 1000,
\* scaled down so that the buffer reaches it.
BatchLimit == 3

\* ------------------------------------------------------ program constants

\* announcementBatchSoftLimit, at the scale of the model.
announcementBatchSoftLimit == BatchLimit

\* Primary key of the only row of consensus_infos.
consensusInfoID == 1

\* modules.ConsensusChangeBeginning: change identifiers are modelled by the
\* position of the change in the chain, the beginning by the position before
\* the first change.
ConsensusChangeBeginning == 0

ErrHostNotFound == "ErrHostNotFound"
InteractionTypeScan == "scan"

\* ------------------------------------------------------------------ values

HostKeys == {"h1", "h2"}
\* The persist intervals the store is opened with.
PersistIntervals == {1}
MainPersistIntervals == {0}
Procs == {"p1", "p2"}

NoStore == [open |-> FALSE]
NoTx == [open |-> FALSE]

\* time.Time: an instant and a location.
Time(u, l) == [unix |-> u, loc |-> l]
\* Time.UTC: the same instant in another location.
UTC(t) == [unix |-> t.unix, loc |-> "UTC"]
\* Time.UnixNano
UnixNano(t) == t.unix

\* rhp.HostSettings and the persisted hostSettings hold the same fields in
\* different representations (types.Currency and *big.Int).
RhpSettings(v) == [repr |-> "rhp", v |-> v]
\* hostSettings{}: the zero value.
NoSettings == [repr |-> "db", v |-> "zero"]
\* convertHostSettings
convertHostSettings(s) == [repr |-> "db", v |-> s.v]

\* Blocks of the chain. A block is identified by its ID and carries host
\* announcements (host key, net address) in order.
Block(id, ts, anns) == [ID |-> id, Timestamp |-> ts, Announcements |-> anns]
Ann(hk, addr) == [hostKey |-> hk, NetAddress |-> addr]
B0 == Block("b0", 1, <<>>)
B1 == Block("b1", 1, <<Ann("h1", "a1")>>)
B2 == Block("b2", 2, <<Ann("h1", "a2")>>)
B3 == Block("b3", 2, <<Ann("h2", "a1")>>)

\* The shapes a consensus change is drawn from: the number of blocks it
\* reverts (the most recent blocks of the chain) and the blocks it applies.
ChangeChoices ==
    {[revert |-> 0, applied |-> <<>>],
     [revert |-> 0, applied |-> <<B1>>],
     [revert |-> 0, applied |-> <<B2>>],
     [revert |-> 0, applied |-> <<B1, B2>>],
     [revert |-> 1, applied |-> <<B0, B3>>]}

\* ------------------------------------------------------------------- state

VARIABLES
    db,       \* the persisted database: one field per table
    store,    \* the SQLStore instance (NoStore when the process is down), with
              \* the time of its last committed flush (lastCommit) as history
    now,      \* the wall clock
    chain,    \* the consensus changes produced so far, in order
    nextCC,   \* position in chain of the next change the subscriber receives
    tx,       \* the RecordHostInteractions call each caller is in, and whether
              \* another batch for its host was committed since it began
    calls,    \* number of RecordHostInteractions calls started
    credited, \* per host key, the interactions of the batches committed for it
    recorded, \* for each row of host_interactions, in order, the host key it
              \* was recorded for
    last,     \* the last operation: its arguments, result and the database before
    bus,      \* the ledgers the bus persists next to the host database:
              \* ephemeral accounts, contracts and contract spending
    worker,   \* the worker process and the accounts it holds in memory
    ap        \* the autopilot: block height, current period and configuration

vars == <<db, store, now, chain, nextCC, tx, calls, credited, recorded, last,
          bus, worker, ap>>

\* The state of the host database and of its callers.
hostVars == <<db, store, now, chain, nextCC, tx, calls, credited, recorded>>
\* The state of the rest of the cluster.
clusterVars == <<bus, worker, ap>>

\* --------------------------------------------------------------- database

EmptyDB ==
    [consensus_infos |-> [i \in {} |-> 0],
     host_announcements |-> <<>>,
     hosts |-> <<>>,
     host_interactions |-> <<>>,
     autopilots |-> <<>>]

\* The outcome of a statement or of a transaction body.
Ok(d) == [db |-> d, err |-> FALSE]
Failed(d) == [db |-> d, err |-> TRUE]

\* A transaction that does not roll back: what the body wrote before it
\* failed stays.
TransactionNoRollback(before, result, commitFails) ==
    IF commitFails THEN Failed(before) ELSE [db |-> result.db, err |-> result.err]

\* gorm's db.Transaction: commits what the body did if it returned no error
\* and the commit went through, rolls everything back otherwise.
Transaction(before, result, commitFails) ==
    IF result.err \/ commitFails THEN Failed(before) ELSE Ok(result.db)

\* Whether the database accepts a write: a transaction that holds the write
\* lock makes every other writer wait and, past the busy timeout, fail.
Locked == \E p \in Procs : tx[p].open /\ tx[p].locked

\* dbHost as created by insertAnnouncements: every other field is zero.
NewHost(hk, lastAnnouncement, netAddress) ==
    [PublicKey |-> hk,
     Settings |-> NoSettings,
     TotalScans |-> 0,
     LastScan |-> 0,
     LastScanSuccess |-> FALSE,
     SecondToLastScanSuccess |-> FALSE,
     Uptime |-> 0,
     Downtime |-> 0,
     SuccessfulInteractions |-> 0,
     FailedInteractions |-> 0,
     LastAnnouncement |-> lastAnnouncement,
     NetAddress |-> netAddress]

\* ON CONFLICT DO NOTHING: an existing row keeps its values.
UpsertHostKeepFirst(table, h) ==
    IF \E i \in 1..Len(table) : table[i].PublicKey = h.PublicKey
    THEN table
    ELSE Append(table, h)

\* ON CONFLICT UPDATE ALL: an existing row is replaced by the new one.
UpsertHostReplace(table, h) ==
    IF \E i \in 1..Len(table) : table[i].PublicKey = h.PublicKey
    THEN [i \in 1..Len(table) |-> IF table[i].PublicKey = h.PublicKey THEN h ELSE table[i]]
    ELSE Append(table, h)

\* INSERT ... ON CONFLICT (public_key) DO UPDATE SET last_announcement,
\* net_address: one row of the statement.
UpsertHost(table, h) ==
    IF \E i \in 1..Len(table) : table[i].PublicKey = h.PublicKey
    THEN [i \in 1..Len(table) |->
            IF table[i].PublicKey = h.PublicKey
            THEN [table[i] EXCEPT !.LastAnnouncement = h.LastAnnouncement,
                                  !.NetAddress = h.NetAddress]
            ELSE table[i]]
    ELSE Append(table, h)

\* The rows of the statement are applied in order.
RECURSIVE UpsertHosts(_, _)
UpsertHosts(table, hs) ==
    IF hs = <<>> THEN table
    ELSE UpsertHosts(UpsertHost(table, Head(hs)), Tail(hs))

\* The dbAnnouncement insertAnnouncements builds from an announcement.
AnnouncementRow(a) ==
    [HostKey |-> a.hostKey,
     BlockHeight |-> a.announcement.Index.Height,
     BlockID |-> a.announcement.Index.ID,
     NetAddress |-> a.announcement.NetAddress]

\* insertAnnouncements: the announcement rows, then the host upsert. failAt
\* names the statement that fails, if any.
insertAnnouncements(d, as, failAt) ==
    LET hosts == [i \in 1..Len(as) |->
                    NewHost(as[i].hostKey, UTC(as[i].announcement.Timestamp),
                            as[i].announcement.NetAddress)]
        announcements == [i \in 1..Len(as) |-> AnnouncementRow(as[i])]
        d1 == [d EXCEPT !.host_announcements = @ \o announcements]
        d2 == [d1 EXCEPT !.hosts = UpsertHosts(@, hosts)]
    IN  IF failAt \in {"busy", "announcements"} THEN Failed(d)
        ELSE IF failAt = "hosts" THEN Failed(d1)
        ELSE Ok(d2)

\* updateCCID: UPDATE consensus_infos SET ccid = ? WHERE id = consensusInfoID
updateCCID(d, newCCID, failAt) ==
    IF failAt \in {"busy", "ccid"} THEN Failed(d)
    ELSE Ok([d EXCEPT !.consensus_infos =
                [i \in DOMAIN @ |-> IF i = consensusInfoID THEN newCCID ELSE @[i]]])

\* A start that writes the beginning of the chain over the checkpoint.
FirstOrCreateReset(infos) ==
    [i \in DOMAIN infos \cup {consensusInfoID} |->
        IF i = consensusInfoID THEN ConsensusChangeBeginning ELSE infos[i]]

\* FirstOrCreate of the row with primary key consensusInfoID: the row is
\* inserted with the beginning of the chain only when no row has the key.
FirstOrCreate(infos) ==
    IF consensusInfoID \in DOMAIN infos
    THEN infos
    ELSE [i \in DOMAIN infos \cup {consensusInfoID} |->
            IF i = consensusInfoID THEN ConsensusChangeBeginning ELSE infos[i]]

\* ------------------------------------------------------- consensus changes

\* The height of the chain and its blocks after the changes of c.
RECURSIVE ChainBlocks(_)
ChainBlocks(c) ==
    IF c = <<>> THEN <<>>
    ELSE LET cc == c[Len(c)]
             before == ChainBlocks(SubSeq(c, 1, Len(c) - 1))
         IN  SubSeq(before, 1, Len(before) - Len(cc.RevertedBlocks)) \o cc.AppliedBlocks

\* The last n blocks of the chain, most recent first.
LastBlocks(blocks, n) == [i \in 1..n |-> blocks[Len(blocks) + 1 - i]]

\* The elements of a sequence.
Range(q) == {q[i] : i \in 1..Len(q)}

\* The changes the consensus set may produce next, of the given shapes: a
\* change reverts blocks the chain holds and applies blocks it does not hold.
NextChanges(choices) ==
    LET blocks == ChainBlocks(chain)
        fits(c) == /\ c.revert <= Len(blocks)
                   /\ Range(c.applied) \cap
                        Range(SubSeq(blocks, 1, Len(blocks) - c.revert)) = {}
    IN  {[ID |-> Len(chain) + 1,
          InitialHeight |-> Len(blocks),
          RevertedBlocks |-> LastBlocks(blocks, c.revert),
          AppliedBlocks |-> c.applied] : c \in {x \in choices : fits(x)}}

\* hostdb.ForEachAnnouncement: the announcements of block b, at height.
ForEachAnnouncement(b, height) ==
    [i \in 1..Len(b.Announcements) |->
        [hostKey |-> b.Announcements[i].hostKey,
         announcement |->
            [Index |-> [Height |-> height, ID |-> b.ID],
             Timestamp |-> Time(b.Timestamp, "Local"),
             NetAddress |-> b.Announcements[i].NetAddress]]]

\* The loop over cc.AppliedBlocks, from the block at position i on.
RECURSIVE AppliedAnnouncements(_, _, _)
AppliedAnnouncements(blocks, i, height) ==
    IF i > Len(blocks) THEN <<>>
    ELSE ForEachAnnouncement(blocks[i], height)
            \o AppliedAnnouncements(blocks, i + 1, height + 1)

\* Heights counted from the initial height, the reverted blocks left out.
NewAnnouncementsNoRevert(cc) ==
    AppliedAnnouncements(cc.AppliedBlocks, 1, cc.InitialHeight)

\* The announcements ProcessConsensusChange takes from cc.
NewAnnouncements(cc) ==
    AppliedAnnouncements(cc.AppliedBlocks, 1, cc.InitialHeight - Len(cc.RevertedBlocks))

\* A flush condition that already holds when the interval has just elapsed.
ShouldFlushEager(s, buffered, t) ==
    t - s.lastAnnouncementSave >= s.persistInterval
        \/ Len(buffered) >= announcementBatchSoftLimit

\* An append that first drops the buffered announcements of the blocks the
\* change reverts.
AppendUndoingReverted(unapplied, cc) ==
    LET reverted == {cc.RevertedBlocks[i].ID : i \in 1..Len(cc.RevertedBlocks)}
        drop == {i \in 1..Len(unapplied) :
                    unapplied[i].announcement.Index.ID \in reverted}
        keep == 1..Len(unapplied) \ drop
        nth(k) == CHOOSE i \in keep : Cardinality({j \in keep : j <= i}) = k
    IN  [k \in 1..Cardinality(keep) |-> unapplied[nth(k)]] \o NewAnnouncements(cc)

\* db.unappliedAnnouncements = append(db.unappliedAnnouncements,
\* newAnnouncements...)
AppendAnnouncements(unapplied, cc) == unapplied \o NewAnnouncements(cc)

\* A flush condition without the persist interval.
ShouldFlushLimitOnly(s, buffered, t) ==
    Len(buffered) >= announcementBatchSoftLimit

\* A flush condition that lets the buffer reach the soft limit.
ShouldFlushAboveLimit(s, buffered, t) ==
    t - s.lastAnnouncementSave > s.persistInterval
        \/ Len(buffered) > announcementBatchSoftLimit

\* The flush condition of ProcessConsensusChange.
ShouldFlush(s, buffered, t) ==
    t - s.lastAnnouncementSave > s.persistInterval
        \/ Len(buffered) >= announcementBatchSoftLimit

\* The body of the flush transaction.
FlushBody(d, buffered, ccid, failAt) ==
    LET r == IF Len(buffered) > 0 THEN insertAnnouncements(d, buffered, failAt) ELSE Ok(d)
    IN  IF r.err THEN r ELSE updateCCID(r.db, ccid, failAt)

\* The buffer ProcessConsensusChange keeps after a flush attempt:
\* db.unappliedAnnouncements[:0], whatever the transaction returned.
BufferAfterFlush(buffered, err) == <<>>

\* Where the flush transaction may fail.
FlushFailPoints == {"none", "busy", "announcements", "hosts", "ccid", "commit"}

\* ------------------------------------------------------------ host lookups

ZeroTime == Time(0, "UTC")

\* dbHost.convert
convertHost(h) ==
    [NetAddress |-> h.NetAddress,
     Interactions |->
        [TotalScans |-> h.TotalScans,
         LastScan |-> IF h.LastScan > 0 THEN Time(h.LastScan, "Local") ELSE ZeroTime,
         LastScanSuccess |-> h.LastScanSuccess,
         SecondToLastScanSuccess |-> h.SecondToLastScanSuccess,
         Uptime |-> h.Uptime,
         Downtime |-> h.Downtime,
         SuccessfulInteractions |-> h.SuccessfulInteractions,
         FailedInteractions |-> h.FailedInteractions],
     PublicKey |-> h.PublicKey,
     Settings |-> IF h.Settings = NoSettings THEN "nil" ELSE RhpSettings(h.Settings.v)]

\* The rows of hosts the query WHERE public_key = hostKey selects.
HostRows(table, hostKey) == {i \in 1..Len(table) : table[i].PublicKey = hostKey}

\* Take without the WHERE clause: the first row of the table.
HostQueryAny(d, hostKey) ==
    IF d.hosts = <<>> THEN [host |-> "none", err |-> ErrHostNotFound]
    ELSE [host |-> convertHost(d.hosts[1]), err |-> "nil"]

\* SQLStore.Host: Take of a matching row.
HostQuery(d, hostKey) ==
    LET rows == HostRows(d.hosts, hostKey)
    IN  IF rows = {} THEN [host |-> "none", err |-> ErrHostNotFound]
        ELSE [host |-> convertHost(d.hosts[CHOOSE i \in rows : \A j \in rows : i <= j]),
              err |-> "nil"]

\* The query of SQLStore.Hosts: the table with LIMIT max, in the order of
\* the primary key; notSince is in no clause of it.
HostsQuery(d, notSince, max) ==
    [i \in 1..(IF max < Len(d.hosts) THEN max ELSE Len(d.hosts)) |->
        convertHost(d.hosts[i])]

\* ------------------------------------------------------------ interactions

Interaction(type, success, t, result) ==
    [Type |-> type, Success |-> success, Timestamp |-> Time(t, "Local"), Result |-> result]

\* json.Unmarshal of an interaction's result into a hostdb.ScanResult.
DecodeScanResult(result) ==
    IF result = "{settings:s1}" THEN [err |-> FALSE, Settings |-> RhpSettings("s1")]
    ELSE IF result = "{settings:s2}" THEN [err |-> FALSE, Settings |-> RhpSettings("s2")]
    ELSE [err |-> TRUE, Settings |-> RhpSettings("zero")]

\* The batches of interactions a caller records at time t.
Batches(t) ==
    {<<Interaction("scan", TRUE, t, "{settings:s1}")>>,
     <<Interaction("scan", FALSE, t, "timeout")>>,
     <<Interaction("scan", TRUE, t, "garbage")>>,
     <<Interaction("rpc", TRUE, t, "ok"), Interaction("rpc", FALSE, t, "eof")>>}
    \cup (IF t > 1
          THEN {<<Interaction("scan", TRUE, t - 1, "{settings:s2}"),
                  Interaction("scan", FALSE, t, "timeout")>>}
          ELSE {})

\* The number of interactions of a batch with the given outcome.
RECURSIVE CountSuccess(_, _)
CountSuccess(interactions, success) ==
    IF interactions = <<>> THEN 0
    ELSE (IF Head(interactions).Success = success THEN 1 ELSE 0)
            + CountSuccess(Tail(interactions), success)

\* The settings a scan interaction stores: sr stays the zero value unless the
\* scan succeeded and its result was decoded.
ScanSettings(interaction) ==
    IF interaction.Success
    THEN convertHostSettings(DecodeScanResult(interaction.Result).Settings)
    ELSE convertHostSettings(RhpSettings("zero"))

\* Whether building the queries returns an error: a successful scan whose
\* result does not decode.
PrepareFails(interactions) ==
    \E i \in 1..Len(interactions) :
        /\ interactions[i].Type = InteractionTypeScan
        /\ interactions[i].Success
        /\ DecodeScanResult(interactions[i].Result).err

\* A scan statement without the CASE on last_scan.
ScanUpdateNoGuard(h, interaction) ==
    LET ts == UnixNano(interaction.Timestamp)
        elapsed == ts - h.LastScan
    IN  [h EXCEPT !.TotalScans = @ + 1,
                  !.SecondToLastScanSuccess = h.LastScanSuccess,
                  !.LastScanSuccess = interaction.Success,
                  !.Uptime = IF interaction.Success THEN elapsed ELSE @,
                  !.Downtime = IF interaction.Success THEN @ ELSE elapsed,
                  !.LastScan = ts,
                  !.Settings = ScanSettings(interaction)]

\* The assignments of one scan statement to one row of hosts. The right
\* hand sides read the row as it was before the statement.
ScanUpdate(h, interaction) ==
    LET ts == UnixNano(interaction.Timestamp)
        elapsed == IF h.LastScan = 0 THEN h.LastScan ELSE ts - h.LastScan
    IN  [h EXCEPT !.TotalScans = @ + 1,
                  !.SecondToLastScanSuccess = h.LastScanSuccess,
                  !.LastScanSuccess = interaction.Success,
                  !.Uptime = IF interaction.Success THEN elapsed ELSE @,
                  !.Downtime = IF interaction.Success THEN @ ELSE elapsed,
                  !.LastScan = ts,
                  !.Settings = ScanSettings(interaction)]

\* The rows one scan statement updates: it has no WHERE clause.
ScanTargets(table, hostKey) == 1..Len(table)

\* scanQuery: one statement per scan interaction, in order.
RECURSIVE ScanQuery(_, _, _)
ScanQuery(table, hostKey, interactions) ==
    IF interactions = <<>> THEN table
    ELSE LET i == Head(interactions)
             t == IF i.Type = InteractionTypeScan
                  THEN [r \in 1..Len(table) |->
                          IF r \in ScanTargets(table, hostKey)
                          THEN ScanUpdate(table[r], i) ELSE table[r]]
                  ELSE table
         IN  ScanQuery(t, hostKey, Tail(interactions))

\* Counters written as absolute values instead of increments.
InteractionUpdateAbsolute(h, successful, failed) ==
    [h EXCEPT !.SuccessfulInteractions = successful,
              !.FailedInteractions = failed]

\* The first statement: the interaction counters of the host, relative to
\* the values of the row.
InteractionUpdate(h, successful, failed) ==
    [h EXCEPT !.SuccessfulInteractions = @ + successful,
              !.FailedInteractions = @ + failed]

\* The rows of host_interactions of a batch.
InteractionRows(interactions) ==
    [i \in 1..Len(interactions) |->
        [Result |-> interactions[i].Result,
         Success |-> interactions[i].Success,
         Timestamp |-> UTC(interactions[i].Timestamp),
         Type |-> interactions[i].Type]]

\* The body of the transaction of RecordHostInteractions.
RecordBody(d, hostKey, interactions, failAt) ==
    LET d1 == [d EXCEPT !.host_interactions = @ \o InteractionRows(interactions)]
        counted == [r \in 1..Len(d1.hosts) |->
                      IF r \in HostRows(d1.hosts, hostKey)
                      THEN InteractionUpdate(d1.hosts[r],
                                             CountSuccess(interactions, TRUE),
                                             CountSuccess(interactions, FALSE))
                      ELSE d1.hosts[r]]
        d2 == [d1 EXCEPT !.hosts = ScanQuery(counted, hostKey, interactions)]
    IN  IF failAt \in {"busy", "create"} THEN Failed(d)
        ELSE IF failAt = "exec" THEN Failed(d1)
        ELSE Ok(d2)

RecordFailPoints == {"none", "create", "exec"}

NoLast == [op |-> "none"]

\* ----------------------------------------------------------------- cluster

\* The contract settings of an autopilot configuration: the contract period
\* and the renew window, in blocks.
ContractsConfig(period, renewWindow) == [Period |-> period, RenewWindow |-> renewWindow]
DefaultConfig == ContractsConfig(2, 1)
Configs == {DefaultConfig, ContractsConfig(3, 2)}

\* No account, no contract, nothing spent.
EmptyBus ==
    [accounts |-> [i \in {} |-> 0],
     contracts |-> <<>>,
     spending |-> 0]

\* The worker is up and holds no account; the autopilot has not run.
InitCluster ==
    /\ bus = EmptyBus
    /\ worker = [up |-> TRUE, accounts |-> [i \in {} |-> 0]]
    /\ ap = [height |-> 1, currentPeriod |-> 0, cfg |-> DefaultConfig]

\* ---------------------------------------------------------------- accounts

ErrMaxBalanceExceeded == "ephemeral account maximum balance exceeded"
ErrAccountNotFound == "account doesn't exist"

\* The account a worker holds with each host.
AccountFor == [hk \in HostKeys |-> IF hk = "h1" THEN "acc1" ELSE "acc2"]
AccountIDs == {AccountFor[hk] : hk \in HostKeys}

\* The amounts of a funding and the balances and drifts of a reconciliation.
Amounts == 1..(MaxBalance + 1)
Balances == {1, MaxBalance}
Drifts == {-1, 0}

Account(id, owner, host, balance, drift) ==
    [id |-> id, owner |-> owner, host |-> host, balance |-> balance, drift |-> drift]

\* A table of accounts with the account of identifier id set to a.
PutAccount(accounts, id, a) ==
    [i \in DOMAIN accounts \cup {id} |-> IF i = id THEN a ELSE accounts[i]]

\* The balance of an account in a table, zero when it is not there.
BalanceOf(accounts, id) ==
    IF id \in DOMAIN accounts THEN accounts[id].balance ELSE 0

\* A limit check that looks at the deposit alone.
ExceedsMaxAmountOnly(balance, amount) == amount > MaxBalance

\* Whether a deposit would take the balance above the maximum the host
\* advertises.
ExceedsMax(balance, amount) == balance + amount > MaxBalance

\* The account after a deposit; it is created on first funding.
Deposit(accounts, id, owner, host, amount) ==
    IF id \in DOMAIN accounts
    THEN [accounts EXCEPT ![id].balance = @ + amount]
    ELSE PutAccount(accounts, id, Account(id, owner, host, amount, 0))

\* fund(accountID, host, amount), called on the worker: the deposit is
\* refused above the host's maximum; otherwise the worker's account and the
\* persisted account grow by it and the spending of the contract records it.
Fund(hostKey, amount) ==
    /\ worker.up
    /\ bus.spending + amount <= MaxSpending
    /\ LET id == AccountFor[hostKey]
           balance == BalanceOf(worker.accounts, id)
           refused == ExceedsMax(balance, amount)
       IN  /\ worker' = IF refused THEN worker
                         ELSE [worker EXCEPT !.accounts =
                                Deposit(@, id, "worker", hostKey, amount)]
           /\ bus' = IF refused THEN bus
                      ELSE [bus EXCEPT !.accounts =
                                Deposit(@, id, "worker", hostKey, amount),
                                       !.spending = @ + amount]
           /\ last' = [op |-> "Fund", id |-> id, amount |-> amount,
                       balance |-> balance,
                       preBus |-> bus, preWorker |-> worker,
                       err |-> IF refused THEN ErrMaxBalanceExceeded ELSE "nil"]
    /\ UNCHANGED <<ap>>
    /\ UNCHANGED hostVars

\* setBalance(accountID, owner, host, newBalance, newDrift), called on the
\* bus: the persisted account is overwritten, balance and drift in one write.
\* The accounts a running worker holds are not touched.
SetBalance(id, owner, hostKey, newBalance, newDrift) ==
    /\ worker.up
    /\ bus' = [bus EXCEPT !.accounts =
                    PutAccount(@, id, Account(id, owner, hostKey, newBalance, newDrift))]
    /\ last' = [op |-> "SetBalance", id |-> id, balance |-> newBalance,
                drift |-> newDrift, preBus |-> bus, preWorker |-> worker,
                err |-> "nil"]
    /\ UNCHANGED <<worker, ap>>
    /\ UNCHANGED hostVars

\* A reset that also drops the balance.
ClearAccount(a) == [a EXCEPT !.drift = 0, !.balance = 0]

\* The account after a drift reset.
ClearDrift(a) == [a EXCEPT !.drift = 0]

\* resetDrift(accountID), called on the worker: the drift of the account the
\* worker holds and of the persisted account become zero. The last
\* reconciliation of the account is passed on for as long as only drift
\* resets and restarts follow it.
ResetDrift(id) ==
    /\ worker.up
    /\ LET found == id \in DOMAIN worker.accounts
       IN  /\ worker' = IF found
                         THEN [worker EXCEPT !.accounts[id] = ClearDrift(@)]
                         ELSE worker
           /\ bus' = IF found /\ id \in DOMAIN bus.accounts
                      THEN [bus EXCEPT !.accounts[id] = ClearDrift(@)]
                      ELSE bus
           /\ last' = [op |-> "ResetDrift", id |-> id,
                       preBus |-> bus, preWorker |-> worker,
                       set |-> IF last.op = "SetBalance" /\ last.id = id
                               THEN <<last.balance>>
                               ELSE IF last.op = "Restart" /\ last.id = id THEN last.set
                               ELSE <<>>,
                       err |-> IF found THEN "nil" ELSE ErrAccountNotFound]
    /\ UNCHANGED <<ap>>
    /\ UNCHANGED hostVars

\* The cluster shuts down: the accounts the worker held in memory are gone.
Shutdown ==
    /\ worker.up
    /\ worker' = [up |-> FALSE, accounts |-> [i \in {} |-> 0]]
    /\ last' = [op |-> "Shutdown", preBus |-> bus, preWorker |-> worker,
                set |-> IF last.op = "SetBalance" THEN <<last.id, last.balance>>
                        ELSE <<>>]
    /\ UNCHANGED <<bus, ap>>
    /\ UNCHANGED hostVars

\* A load that forgets the drift.
LoadAccountsNoDrift(accounts) ==
    [i \in DOMAIN accounts |-> [accounts[i] EXCEPT !.drift = 0]]

\* The accounts a starting worker takes from the persisted ledger.
LoadAccounts(accounts) == accounts

\* The cluster starts again: the worker loads its accounts from the bus.
Restart ==
    /\ ~worker.up
    /\ worker' = [up |-> TRUE, accounts |-> LoadAccounts(bus.accounts)]
    /\ last' = [op |-> "Restart", preBus |-> bus, preWorker |-> worker,
                atShutdown |-> IF last.op = "Shutdown" THEN last.preBus.accounts
                               ELSE bus.accounts,
                set |-> IF last.op = "Shutdown" /\ last.set # <<>>
                        THEN <<last.set[2]>> ELSE <<>>,
                id |-> IF last.op = "Shutdown" /\ last.set # <<>>
                       THEN last.set[1] ELSE "none"]
    /\ UNCHANGED <<bus, ap>>
    /\ UNCHANGED hostVars

\* -------------------------------------------------------------- autopilots

ErrAutopilotNotFound == "ErrAutopilotNotFound"
ErrEmptyID == "autopilot ID cannot be empty"
ErrInvalidConfig == "invalid autopilot config"

\* api.AutopilotConfig values: two that pass validation and one that fails.
AutopilotConfig(contracts) == [Contracts |-> contracts]
InvalidConfig == AutopilotConfig(ContractsConfig(0, 0))
AutopilotConfigs == {AutopilotConfig(c) : c \in Configs} \cup {InvalidConfig}

\* The identifiers UpdateAutopilot is called with.
AutopilotIDs == {"", "ap1", "ap2"}
\* The current periods UpdateAutopilot is called with.
CurrentPeriods == {0, 1}

\* api.Autopilot
Autopilot(id, config, currentPeriod) ==
    [ID |-> id, Config |-> config, CurrentPeriod |-> currentPeriod]

\* AutopilotConfig.Validate
Validate(config) == config # InvalidConfig

\* json.Marshal and json.Unmarshal of a configuration.
Marshal(config) == [json |-> config]
Unmarshal(raw) == raw.json

\* dbAutopilot.convert
convertAutopilot(row) ==
    Autopilot(row.Identifier, Unmarshal(row.Config), row.CurrentPeriod)

\* A validation without the check of the identifier.
ValidationErrorNoID(a) ==
    IF ~Validate(a.Config) THEN ErrInvalidConfig ELSE "nil"

\* The validation UpdateAutopilot starts with: the error it returns, "nil"
\* when the autopilot passes.
ValidationError(a) ==
    IF a.ID = "" THEN ErrEmptyID
    ELSE IF ~Validate(a.Config) THEN ErrInvalidConfig
    ELSE "nil"

\* INSERT ... ON CONFLICT (identifier) DO UPDATE of every column.
UpsertAutopilot(table, row) ==
    IF \E i \in 1..Len(table) : table[i].Identifier = row.Identifier
    THEN [i \in 1..Len(table) |->
            IF table[i].Identifier = row.Identifier THEN row ELSE table[i]]
    ELSE Append(table, row)

\* SQLStore.UpdateAutopilot(ap)
UpdateAutopilot(a) ==
    /\ store.open
    /\ LET err == ValidationError(a)
           row == [Identifier |-> a.ID,
                   Config |-> Marshal(a.Config),
                   CurrentPeriod |-> a.CurrentPeriod]
           res == IF Locked THEN Failed(db)
                  ELSE Ok([db EXCEPT !.autopilots = UpsertAutopilot(@, row)])
       IN  /\ db' = IF err # "nil" THEN db ELSE res.db
           /\ last' = [op |-> "UpdateAutopilot", pre |-> db, ap |-> a,
                       err |-> IF err # "nil" THEN err
                               ELSE IF res.err THEN "busy" ELSE "nil"]
    /\ UNCHANGED <<store, now, chain, nextCC, tx, calls, credited, recorded>>
    /\ UNCHANGED clusterVars

\* SQLStore.Autopilot(id)
GetAutopilot(id) ==
    /\ store.open
    /\ LET rows == {i \in 1..Len(db.autopilots) : db.autopilots[i].Identifier = id}
       IN  last' = [op |-> "Autopilot", id |-> id,
                    result |-> IF rows = {}
                               THEN [err |-> ErrAutopilotNotFound]
                               ELSE [err |-> "nil",
                                     autopilot |->
                                        convertAutopilot(db.autopilots[CHOOSE i \in rows : TRUE])]]
    /\ UNCHANGED <<db, store, now, chain, nextCC, tx, calls, credited, recorded>>
    /\ UNCHANGED clusterVars

\* --------------------------------------------------------------- contracts

\* renewedFrom of a contract that is not a renewal.
NoContract == 0

\* An end height that leaves the renew window out.
EndHeightNoWindow(startHeight, cfg) == startHeight + cfg.Period

\* The end height of a contract formed at startHeight under cfg.
EndHeight(startHeight, cfg) == startHeight + cfg.Period + cfg.RenewWindow

\* A contract, formed or renewed: its identifier is its position in the
\* ledger, and it keeps the period and renew window it was formed under.
Contract(id, renewedFrom, hostKey, startHeight, cfg) ==
    [id |-> id,
     renewedFrom |-> renewedFrom,
     host |-> hostKey,
     startHeight |-> startHeight,
     period |-> cfg.Period,
     renewWindow |-> cfg.RenewWindow,
     endHeight |-> EndHeight(startHeight, cfg)]

\* The contracts no other contract was renewed from.
ActiveContracts(contracts) ==
    {i \in 1..Len(contracts) :
        \A j \in 1..Len(contracts) : contracts[j].renewedFrom # i}

\* An autopilot that never moves to the next period.
KeepPeriod(a) ==
    IF a.currentPeriod = 0 THEN [a EXCEPT !.currentPeriod = a.height] ELSE a

\* The autopilot brings its current period up to date when it runs: the
\* first run starts the first period at the block height, a later run moves
\* to the next period once the height has reached its start.
UpdatePeriod(a) ==
    IF a.currentPeriod = 0 THEN [a EXCEPT !.currentPeriod = a.height]
    ELSE IF a.height >= a.currentPeriod + a.cfg.Period
    THEN [a EXCEPT !.currentPeriod = @ + a.cfg.Period]
    ELSE a

\* A renewal that puts the new contract in the place of the old one.
ReplaceRenewed(contracts, old, new) ==
    [i \in 1..Len(contracts) |->
        IF i = old THEN [new EXCEPT !.id = old] ELSE contracts[i]]

\* The ledger after a renewal: the new contract is added, the old one stays.
AddRenewed(contracts, old, new) == Append(contracts, new)

\* A block is mined.
MineBlock ==
    /\ ap.height < MaxHeight
    /\ ap' = [ap EXCEPT !.height = @ + 1]
    /\ last' = [op |-> "MineBlock", preContracts |-> bus.contracts]
    /\ UNCHANGED <<bus, worker>>
    /\ UNCHANGED hostVars

\* The autopilot forms a contract with a host it has no active contract
\* with: the contract starts with the current period.
FormContract(hostKey) ==
    /\ \A i \in ActiveContracts(bus.contracts) : bus.contracts[i].host # hostKey
    /\ LET a == UpdatePeriod(ap)
           c == Contract(Len(bus.contracts) + 1, NoContract, hostKey,
                         a.currentPeriod, a.cfg)
       IN  /\ ap' = a
           /\ bus' = [bus EXCEPT !.contracts = Append(@, c)]
           /\ last' = [op |-> "FormContract", preContracts |-> bus.contracts,
                       id |-> c.id, currentPeriod |-> a.currentPeriod, cfg |-> a.cfg]
    /\ UNCHANGED <<worker>>
    /\ UNCHANGED hostVars

\* The autopilot renews an active contract that is in its renew window: a new
\* contract renewed from it starts with the current period.
RenewContract(old) ==
    /\ old \in ActiveContracts(bus.contracts)
    /\ ap.height >= bus.contracts[old].endHeight - ap.cfg.RenewWindow
    /\ ap.height < bus.contracts[old].endHeight
    /\ LET a == UpdatePeriod(ap)
           c == Contract(Len(bus.contracts) + 1, old, bus.contracts[old].host,
                         a.currentPeriod, a.cfg)
       IN  /\ ap' = a
           /\ bus' = [bus EXCEPT !.contracts = AddRenewed(@, old, c)]
           /\ last' = [op |-> "RenewContract", preContracts |-> bus.contracts,
                       id |-> c.id, renewed |-> old, cfg |-> a.cfg]
    /\ UNCHANGED <<worker>>
    /\ UNCHANGED hostVars

\* ----------------------------------------------------------------- actions

InitEmpty ==
    /\ db = EmptyDB
    /\ store = NoStore
    /\ now = 1
    /\ chain = <<>>
    /\ nextCC = 1
    /\ tx = [p \in Procs |-> NoTx]
    /\ calls = 0
    /\ credited = [hk \in HostKeys |-> [successful |-> 0, failed |-> 0]]
    /\ recorded = <<>>
    /\ last = NoLast

Init == InitEmpty /\ InitCluster

\* NewSQLStore: creates the checkpoint row if it is absent and returns the
\* persisted checkpoint; the consensus set then delivers the changes after it.
NewSQLStore(persistInterval) ==
    /\ ~store.open
    /\ LET infos == FirstOrCreate(db.consensus_infos)
           ccid == infos[consensusInfoID]
       IN  /\ db' = [db EXCEPT !.consensus_infos = infos]
           /\ store' = [open |-> TRUE,
                        lastAnnouncementSave |-> now,
                        lastCommit |-> now,
                        persistInterval |-> persistInterval,
                        unappliedAnnouncements |-> <<>>,
                        unappliedCCID |-> ConsensusChangeBeginning]
           /\ nextCC' = ccid + 1
           /\ last' = [op |-> "NewSQLStore", pre |-> db, ccid |-> ccid]
    /\ UNCHANGED <<now, chain, tx, calls, credited, recorded>>
    /\ UNCHANGED clusterVars

\* Close, and equally a crash of the process: the in-memory state is gone and
\* open transactions are rolled back.
Close ==
    /\ store.open
    /\ store' = NoStore
    /\ tx' = [p \in Procs |-> NoTx]
    /\ last' = [op |-> "Close", pre |-> db]
    /\ UNCHANGED <<db, now, chain, nextCC, calls, credited, recorded>>
    /\ UNCHANGED clusterVars

\* The wall clock advances.
Tick ==
    /\ now < MaxTime
    /\ now' = now + 1
    /\ UNCHANGED <<db, store, chain, nextCC, tx, calls, credited, recorded, last>>
    /\ UNCHANGED clusterVars

\* ProcessConsensusChange(cc), the whole call.
ProcessConsensusChange(cc, failAt) ==
    /\ store.open
    /\ LET buffered == AppendAnnouncements(store.unappliedAnnouncements, cc)
           flush == ShouldFlush(store, buffered, now)
           res == Transaction(db, FlushBody(db, buffered, cc.ID, failAt),
                              failAt = "commit")
       IN  /\ flush \/ failAt = "none"
           /\ (flush /\ Locked) => failAt = "busy"
           /\ db' = IF flush THEN res.db ELSE db
           /\ store' = IF flush
                       THEN [store EXCEPT
                               !.unappliedAnnouncements = BufferAfterFlush(buffered, res.err),
                               !.unappliedCCID = cc.ID,
                               !.lastAnnouncementSave = now,
                               !.lastCommit = IF res.err THEN @ ELSE now]
                       ELSE [store EXCEPT
                               !.unappliedAnnouncements = buffered,
                               !.unappliedCCID = cc.ID]
           /\ last' = [op |-> "ProcessConsensusChange",
                       pre |-> db,
                       cc |-> cc,
                       unapplied |-> store.unappliedAnnouncements,
                       buffered |-> buffered,
                       elapsed |-> now - store.lastAnnouncementSave,
                       sinceCommit |-> now - store.lastCommit,
                       persistInterval |-> store.persistInterval,
                       flush |-> flush,
                       err |-> flush /\ res.err]
    /\ UNCHANGED <<now, tx, calls, credited, recorded>>
    /\ UNCHANGED clusterVars

\* The consensus set delivers the next change: a new one, or after a restart
\* one that was delivered before.
Deliver(choices, failPoints) ==
    /\ nextCC <= MaxCC
    /\ \E failAt \in failPoints :
        IF nextCC <= Len(chain)
        THEN /\ ProcessConsensusChange(chain[nextCC], failAt)
             /\ chain' = chain
        ELSE \E cc \in NextChanges(choices) :
             /\ ProcessConsensusChange(cc, failAt)
             /\ chain' = Append(chain, cc)
    /\ nextCC' = nextCC + 1

\* Changes keep arriving, time advances and flush transactions succeed, as
\* far as the bounds go: a change arrives before the persist interval has
\* elapsed only while another change is to come and the clock can still get
\* past the interval, and no statement of the flush fails.
Arrive ==
    /\ store.open
    /\ \/ now - store.lastAnnouncementSave > store.persistInterval
       \/ /\ nextCC < MaxCC
          /\ store.lastAnnouncementSave + store.persistInterval < MaxTime
    /\ Deliver(ChangeChoices, {"none"})

Hosts(notSince, max) ==
    /\ store.open
    /\ last' = [op |-> "Hosts", notSince |-> notSince, max |-> max,
                result |-> HostsQuery(db, notSince, max)]
    /\ UNCHANGED <<db, store, now, chain, nextCC, tx, calls, credited, recorded>>
    /\ UNCHANGED clusterVars

\* SQLStore.Host(hostKey)
Host(hostKey) ==
    /\ store.open
    /\ last' = [op |-> "Host", hostKey |-> hostKey, result |-> HostQuery(db, hostKey)]
    /\ UNCHANGED <<db, store, now, chain, nextCC, tx, calls, credited, recorded>>
    /\ UNCHANGED clusterVars

\* RecordHostInteractions(hostKey, interactions), up to the transaction:
\* the rows and the queries are built, and a scan result that does not
\* decode returns the error.
RecordHostInteractions(p, hostKey, interactions) ==
    /\ store.open
    /\ ~tx[p].open
    /\ calls < MaxCalls
    /\ calls' = calls + 1
    /\ IF PrepareFails(interactions)
       THEN /\ last' = [op |-> "RecordHostInteractions", pre |-> db,
                        hostKey |-> hostKey, interactions |-> interactions,
                        concurrent |-> FALSE,
                        err |-> TRUE]
            /\ tx' = tx
       ELSE /\ tx' = [tx EXCEPT ![p] = [open |-> TRUE, locked |-> FALSE,
                                        overlapped |-> FALSE,
                                        hostKey |-> hostKey,
                                        interactions |-> interactions,
                                        work |-> EmptyDB]]
            /\ last' = last
    /\ UNCHANGED <<db, store, now, chain, nextCC, credited, recorded>>
    /\ UNCHANGED clusterVars

\* The statements of the transaction: the first write takes the write lock
\* of the database, which the transaction holds until it ends. A statement
\* that fails ends the transaction with a rollback.
RecordExec(p, failAt) ==
    /\ tx[p].open
    /\ ~tx[p].locked
    /\ Locked => failAt = "busy"
    /\ ~Locked => failAt # "busy"
    /\ LET body == RecordBody(db, tx[p].hostKey, tx[p].interactions, failAt)
       IN  IF body.err
           THEN /\ db' = Transaction(db, body, FALSE).db
                /\ tx' = [tx EXCEPT ![p] = NoTx]
                /\ last' = [op |-> "RecordHostInteractions", pre |-> db,
                            hostKey |-> tx[p].hostKey,
                            interactions |-> tx[p].interactions,
                            concurrent |-> FALSE,
                            err |-> TRUE]
           ELSE /\ db' = db
                /\ tx' = [tx EXCEPT ![p].locked = TRUE, ![p].work = body.db]
                /\ last' = last
    /\ UNCHANGED <<store, now, chain, nextCC, calls, credited, recorded>>
    /\ UNCHANGED clusterVars

\* The end of the transaction: the commit, or the rollback if it fails.
RecordCommit(p, commitFails) ==
    /\ tx[p].open
    /\ tx[p].locked
    /\ LET res == Transaction(db, Ok(tx[p].work), commitFails)
           hk == tx[p].hostKey
       IN  /\ db' = res.db
           /\ last' = [op |-> "RecordHostInteractions", pre |-> db,
                       hostKey |-> hk,
                       interactions |-> tx[p].interactions,
                       concurrent |-> tx[p].overlapped,
                       err |-> res.err]
           /\ credited' =
                IF ~res.err /\ HostRows(db.hosts, hk) # {}
                THEN [credited EXCEPT
                        ![hk].successful = @ + CountSuccess(tx[p].interactions, TRUE),
                        ![hk].failed = @ + CountSuccess(tx[p].interactions, FALSE)]
                ELSE credited
           /\ recorded' = IF res.err THEN recorded
                          ELSE recorded \o [i \in 1..Len(tx[p].interactions) |-> hk]
           /\ tx' = [q \in Procs |->
                        IF q = p THEN NoTx
                        ELSE IF tx[q].open /\ tx[q].hostKey = hk /\ ~res.err
                        THEN [tx[q] EXCEPT !.overlapped = TRUE]
                        ELSE tx[q]]
    /\ UNCHANGED <<store, now, chain, nextCC, calls>>
    /\ UNCHANGED clusterVars

\* The rows of q, from position i on, whose position is not in drop.
RECURSIVE KeepFrom(_, _, _)
KeepFrom(q, drop, i) ==
    IF i > Len(q) THEN <<>>
    ELSE (IF i \in drop THEN <<>> ELSE <<q[i]>>) \o KeepFrom(q, drop, i + 1)

\* The rows of host_interactions that reference the host row r and go with
\* it when it is deleted: dbInteraction has no column that references hosts.
InteractionsOfHost(d, r) == {}

\* The rows of host_announcements that go with the host row r: dbAnnouncement
\* has no relation to dbHost.
AnnouncementsOfHost(d, r) == {}

\* Deleting a host: DELETE FROM hosts WHERE public_key = hostKey, with the
\* cascades the schema declares.
DeleteHost(hostKey) ==
    /\ store.open
    /\ LET rows == HostRows(db.hosts, hostKey)
           interactions == UNION {InteractionsOfHost(db, r) : r \in rows}
           announcements == UNION {AnnouncementsOfHost(db, r) : r \in rows}
           d == [db EXCEPT !.hosts = KeepFrom(@, rows, 1),
                           !.host_interactions = KeepFrom(@, interactions, 1),
                           !.host_announcements = KeepFrom(@, announcements, 1)]
           res == IF Locked THEN Failed(db) ELSE Ok(d)
       IN  /\ db' = res.db
           /\ recorded' = IF res.err THEN recorded
                          ELSE KeepFrom(recorded, interactions, 1)
           /\ last' = [op |-> "DeleteHost", pre |-> db, preRecorded |-> recorded,
                       hostKey |-> hostKey, err |-> res.err]
    /\ UNCHANGED <<store, now, chain, nextCC, tx, calls, credited>>
    /\ UNCHANGED clusterVars

\* A seeded database: the store was opened and one consensus change with the
\* given blocks was flushed.
SeedChange(applied) ==
    [ID |-> 1, InitialHeight |-> 0, RevertedBlocks |-> <<>>, AppliedBlocks |-> applied]

SeedDB(applied) ==
    LET opened == [EmptyDB EXCEPT !.consensus_infos =
                        [i \in {consensusInfoID} |-> ConsensusChangeBeginning]]
    IN  Transaction(opened,
                    FlushBody(opened, NewAnnouncements(SeedChange(applied)), 1, "none"),
                    FALSE).db

\* The store is open on a database that holds h1 and not h2.
InitRecord ==
    /\ db = SeedDB(<<B1>>)
    /\ chain = <<SeedChange(<<B1>>)>>
    /\ store = [open |-> TRUE,
                lastAnnouncementSave |-> 1,
                lastCommit |-> 1,
                persistInterval |-> 1,
                unappliedAnnouncements |-> <<>>,
                unappliedCCID |-> 1]
    /\ now = 1
    /\ nextCC = 2
    /\ tx = [p \in Procs |-> NoTx]
    /\ calls = 0
    /\ credited = [hk \in HostKeys |-> [successful |-> 0, failed |-> 0]]
    /\ recorded = <<>>
    /\ last = NoLast
    /\ InitCluster

\* The batches and changes of the specification that runs every operation.
MainBatches(t) ==
    {<<Interaction("scan", TRUE, t, "{settings:s1}"), Interaction("rpc", FALSE, t, "eof")>>}

MainChanges ==
    {[revert |-> 0, applied |-> <<B1>>],
     [revert |-> 0, applied |-> <<B2>>]}

\* Consensus changes alone, of every shape.
NextChain ==
    \/ \E pi \in PersistIntervals : NewSQLStore(pi)
    \/ Close
    \/ Tick
    \/ Deliver(ChangeChoices, FlushFailPoints)
    \/ \E hk \in HostKeys : Host(hk)

\* Concurrent callers of RecordHostInteractions. Idle callers are
\* interchangeable: p2 is the one that calls while p1 is in its call.
NextRecord ==
    \/ Tick
    \/ \E p \in Procs, hk \in HostKeys : \E b \in Batches(now) :
            /\ p = "p2" => tx["p1"].open
            /\ RecordHostInteractions(p, hk, b)
    \/ \E p \in Procs, failAt \in RecordFailPoints \cup {"busy"} : RecordExec(p, failAt)
    \/ \E p \in Procs, commitFails \in BOOLEAN : RecordCommit(p, commitFails)

\* Every operation of an open store, with one caller of
\* RecordHostInteractions.
Next ==
    \/ \E pi \in MainPersistIntervals : NewSQLStore(pi)
    \/ Tick
    \/ Deliver(MainChanges, {"none", "busy", "hosts"})
    \/ \E hk \in HostKeys : Host(hk)
    \/ \E hk \in HostKeys : \E b \in MainBatches(now) :
            RecordHostInteractions("p1", hk, b)
    \/ \E failAt \in RecordFailPoints : RecordExec("p1", failAt)
    \/ \E commitFails \in BOOLEAN : RecordCommit("p1", commitFails)

\* The scans a caller records at time t.
ScanBatches(t) ==
    {<<Interaction("scan", TRUE, t, "{settings:s1}")>>,
     <<Interaction("scan", FALSE, t, "timeout")>>}

\* The batch recorded for h1 before the store is observed: a successful scan
\* at time 1 and a failed scan at time 2.
SeedBatch ==
    <<Interaction("scan", TRUE, 1, "{settings:s2}"),
      Interaction("scan", FALSE, 2, "timeout")>>

\* The store is open at time 2 on a database that holds h1 and h2, both
\* announced, after RecordHostInteractions(h1, SeedBatch) was committed.
InitHosts ==
    /\ db = RecordBody(SeedDB(<<B1, B3>>), "h1", SeedBatch, "none").db
    /\ chain = <<SeedChange(<<B1, B3>>)>>
    /\ store = [open |-> TRUE,
                lastAnnouncementSave |-> 1,
                lastCommit |-> 1,
                persistInterval |-> 1,
                unappliedAnnouncements |-> <<>>,
                unappliedCCID |-> 1]
    /\ now = 2
    /\ nextCC = 2
    /\ tx = [p \in Procs |-> NoTx]
    /\ calls = 0
    /\ credited = [hk \in HostKeys |->
                    IF hk = "h1"
                    THEN [successful |-> CountSuccess(SeedBatch, TRUE),
                          failed |-> CountSuccess(SeedBatch, FALSE)]
                    ELSE [successful |-> 0, failed |-> 0]]
    /\ recorded = [i \in 1..Len(SeedBatch) |-> "h1"]
    /\ last = NoLast
    /\ InitCluster

\* The operations on a populated host table, with one caller.
NextHosts ==
    \/ Tick
    \/ \E hk \in HostKeys : \E b \in ScanBatches(now) :
            RecordHostInteractions("p1", hk, b)
    \/ \E failAt \in RecordFailPoints : RecordExec("p1", failAt)
    \/ \E commitFails \in BOOLEAN : RecordCommit("p1", commitFails)
    \/ \E hk \in HostKeys : DeleteHost(hk)
    \/ \E t \in {0, now}, max \in 1..Cardinality(HostKeys) :
            Hosts(Time(t, "Local"), max)

\* The account operations of a cluster, with restarts.
NextAccounts ==
    \/ \E hk \in HostKeys, amount \in Amounts : Fund(hk, amount)
    \/ \E hk \in HostKeys, b \in Balances, d \in Drifts :
            SetBalance(AccountFor[hk], "worker", hk, b, d)
    \/ \E id \in AccountIDs : ResetDrift(id)
    \/ Shutdown
    \/ Restart

\* A cluster under one of the configurations.
InitContracts ==
    /\ InitEmpty
    /\ bus = EmptyBus
    /\ worker = [up |-> TRUE, accounts |-> [i \in {} |-> 0]]
    /\ \E cfg \in Configs : ap = [height |-> 1, currentPeriod |-> 0, cfg |-> cfg]

\* The chain grows and the autopilot forms and renews contracts.
NextContracts ==
    \/ MineBlock
    \/ \E hk \in HostKeys : FormContract(hk)
    \/ \E old \in 1..Len(bus.contracts) : RenewContract(old)

\* The autopilot table of an open store.
NextAutopilot ==
    \/ \E pi \in MainPersistIntervals : NewSQLStore(pi)
    \/ \E id \in AutopilotIDs, cfg \in AutopilotConfigs, cp \in CurrentPeriods :
            UpdateAutopilot(Autopilot(id, cfg, cp))
    \/ \E id \in AutopilotIDs : GetAutopilot(id)

\* A store that stays open, fed by a consensus set that keeps delivering.
NextLive ==
    \/ \E pi \in PersistIntervals : NewSQLStore(pi)
    \/ Tick
    \/ Arrive
    \/ \E hk \in HostKeys : Host(hk)

Spec == Init /\ [][Next]_vars
SpecLive ==
    /\ Init
    /\ [][NextLive]_vars
    /\ WF_vars(\E pi \in PersistIntervals : NewSQLStore(pi))
    /\ WF_vars(Tick)
    /\ WF_vars(Arrive)
SpecAutopilot == Init /\ [][NextAutopilot]_vars
SpecContracts == InitContracts /\ [][NextContracts]_vars
SpecAccounts == Init /\ [][NextAccounts]_vars
SpecHosts == InitHosts /\ [][NextHosts]_vars
SpecChain == Init /\ [][NextChain]_vars
SpecRecord == InitRecord /\ [][NextRecord]_vars

\* ------------------------------------------------------------------ claims

IsFlush == last.op = "ProcessConsensusChange" /\ last.flush
FlushCommitted == IsFlush /\ ~last.err
RecordCommitted == last.op = "RecordHostInteractions" /\ ~last.err

\* The checkpoint a reader of the database sees.
Checkpoint(d) == d.consensus_infos[consensusInfoID]

\* The host keys of a buffer.
BufferKeys(buffered) == {buffered[i].hostKey : i \in 1..Len(buffered)}

\* The last announcement of hk in a buffer.
Latest(buffered, hk) ==
    buffered[CHOOSE i \in 1..Len(buffered) :
                /\ buffered[i].hostKey = hk
                /\ \A j \in 1..Len(buffered) : buffered[j].hostKey = hk => j <= i]

\* Every announcement of the flushed batch is in the log after the rows the
\* log held before, a host exists for each, and the checkpoint is the
\* identifier of the change.
BatchPersisted ==
    /\ Len(db.host_announcements) = Len(last.pre.host_announcements) + Len(last.buffered)
    /\ \A i \in 1..Len(last.pre.host_announcements) :
            db.host_announcements[i] = last.pre.host_announcements[i]
    /\ \A i \in 1..Len(last.buffered) :
        LET row == db.host_announcements[Len(last.pre.host_announcements) + i]
        IN  /\ row.HostKey = last.buffered[i].hostKey
            /\ row.NetAddress = last.buffered[i].announcement.NetAddress
            /\ row.BlockHeight = last.buffered[i].announcement.Index.Height
            /\ row.BlockID = last.buffered[i].announcement.Index.ID
    /\ \A hk \in BufferKeys(last.buffered) : HostRows(db.hosts, hk) # {}
    /\ Checkpoint(db) = last.cc.ID

\* C1: a flush is atomic. After a ProcessConsensusChange call the database
\* holds either the whole flushed batch (announcement rows, host upserts and
\* the new checkpoint), when the flush transaction was committed, or exactly
\* what it held before the call.
C1_FlushAtomic ==
    last.op = "ProcessConsensusChange" =>
        IF FlushCommitted THEN BatchPersisted ELSE db = last.pre

C1_Witness ==
    /\ FlushCommitted
    /\ Len(last.buffered) >= 2
    /\ Checkpoint(last.pre) # Checkpoint(db)

\* The number of rows of a table equal to row.
RECURSIVE Count(_, _)
Count(table, row) ==
    IF table = <<>> THEN 0
    ELSE (IF Head(table) = row THEN 1 ELSE 0) + Count(Tail(table), row)

\* The announcement rows of the changes 1..k of chain c.
RECURSIVE ExpectedLog(_, _)
ExpectedLog(c, k) ==
    IF k = 0 THEN <<>>
    ELSE ExpectedLog(c, k - 1)
            \o [i \in 1..Len(NewAnnouncements(c[k])) |->
                    AnnouncementRow(NewAnnouncements(c[k])[i])]

\* C2: the persisted checkpoint is never ahead of the persisted data and
\* nothing is duplicated: when the checkpoint is the identifier of change k,
\* the log holds every announcement of the changes 1..k exactly once.
C2_CheckpointMatchesLog ==
    consensusInfoID \in DOMAIN db.consensus_infos =>
        LET expected == ExpectedLog(chain, Checkpoint(db))
        IN  \A row \in Range(expected) \cup Range(db.host_announcements) :
                Count(db.host_announcements, row) = Count(expected, row)

\* C3: flushing is deferred. A call that leaves fewer buffered announcements
\* than the soft limit, no more than the persist interval after the last
\* flush, commits nothing: the database is what it was before the call.
C3_FlushDeferred ==
    (/\ last.op = "ProcessConsensusChange"
     /\ Len(last.buffered) < announcementBatchSoftLimit
     /\ last.elapsed <= last.persistInterval)
        => (~last.flush /\ db = last.pre)

C3_Witness ==
    /\ last.op = "ProcessConsensusChange"
    /\ last.elapsed = last.persistInterval
    /\ Len(last.buffered) = announcementBatchSoftLimit - 1
    /\ store.unappliedAnnouncements = last.buffered
    /\ Checkpoint(db) # last.cc.ID

\* C4: when the flush transaction fails the buffer is retained: after the
\* call it still holds the announcements the flush was attempted with.
C4_BufferRetained ==
    (IsFlush /\ last.err) => store.unappliedAnnouncements = last.buffered

\* C5: after a committed flush of a batch with announcements for host key
\* H, hosts holds exactly one row with public key H, whose last announcement
\* is the instant and whose net address is the address of the latest
\* announcement for H in the batch.
C5_HostUpserted ==
    FlushCommitted =>
        \A hk \in BufferKeys(last.buffered) :
            /\ Cardinality(HostRows(db.hosts, hk)) = 1
            /\ \A r \in HostRows(db.hosts, hk) :
                /\ db.hosts[r].LastAnnouncement.unix
                        = Latest(last.buffered, hk).announcement.Timestamp.unix
                /\ db.hosts[r].NetAddress
                        = Latest(last.buffered, hk).announcement.NetAddress

C5_Witness ==
    /\ FlushCommitted
    /\ \E i, j \in 1..Len(last.buffered) :
        /\ i < j
        /\ last.buffered[i].hostKey = last.buffered[j].hostKey
        /\ last.buffered[i].announcement.NetAddress
                # last.buffered[j].announcement.NetAddress
    /\ \E hk \in BufferKeys(last.buffered) : HostRows(last.pre.hosts, hk) = {}
    /\ \E hk \in BufferKeys(last.buffered) : HostRows(last.pre.hosts, hk) # {}

\* The fields of a host row an announcement does not carry.
OtherFields(h) ==
    <<h.PublicKey, h.Settings, h.TotalScans, h.LastScan, h.LastScanSuccess,
      h.SecondToLastScanSuccess, h.Uptime, h.Downtime,
      h.SuccessfulInteractions, h.FailedInteractions>>

\* C6: a committed flush with an announcement for a host that already exists
\* leaves every field of that host other than the last announcement and the
\* net address as it was.
C6_OtherFieldsKept ==
    FlushCommitted =>
        \A r \in 1..Len(last.pre.hosts) :
            last.pre.hosts[r].PublicKey \in BufferKeys(last.buffered) =>
                /\ r <= Len(db.hosts)
                /\ OtherFields(db.hosts[r]) = OtherFields(last.pre.hosts[r])

C6_Witness ==
    /\ FlushCommitted
    /\ \E r \in 1..Len(last.pre.hosts) :
        /\ last.pre.hosts[r].PublicKey \in BufferKeys(last.buffered)
        /\ last.pre.hosts[r].TotalScans > 0
        /\ last.pre.hosts[r].FailedInteractions > 0
        /\ last.pre.hosts[r].Settings # NoSettings
        /\ last.pre.hosts[r].NetAddress # db.hosts[r].NetAddress

C8_InteractionOwnerExists ==
    \A hk \in Range(recorded) : HostRows(db.hosts, hk) # {}

\* C9: no update is lost: the interaction counters of a host are the sums
\* over the batches committed for it, however the calls interleave.
C9_NoLostUpdate ==
    \A r \in 1..Len(db.hosts) :
        /\ db.hosts[r].SuccessfulInteractions
                = credited[db.hosts[r].PublicKey].successful
        /\ db.hosts[r].FailedInteractions
                = credited[db.hosts[r].PublicKey].failed

C9_Witness ==
    /\ RecordCommitted
    /\ last.concurrent
    /\ credited[last.hostKey].successful >= 2
    /\ credited[last.hostKey].failed >= 1
    /\ \E r \in HostRows(db.hosts, last.hostKey) :
            db.hosts[r].SuccessfulInteractions >= 2

\* The scan interactions of a batch.
ScanCount(interactions) ==
    Cardinality({i \in 1..Len(interactions) :
                    interactions[i].Type = InteractionTypeScan})

\* C10: a first scan of a host with no prior scan (last scan 0), successful
\* or failed, leaves uptime and downtime at zero and makes the scan count 1.
C10_FirstScan ==
    (RecordCommitted /\ ScanCount(last.interactions) = 1) =>
        \A r \in HostRows(last.pre.hosts, last.hostKey) :
            last.pre.hosts[r].LastScan = 0 =>
                /\ db.hosts[r].Uptime = 0
                /\ db.hosts[r].Downtime = 0
                /\ db.hosts[r].TotalScans = 1

C10_Witness ==
    /\ RecordCommitted
    /\ ScanCount(last.interactions) = 1
    /\ \E r \in HostRows(last.pre.hosts, last.hostKey) :
        /\ last.pre.hosts[r].LastScan = 0
        /\ db.hosts[r].LastScan > 1
        /\ db.hosts[r].TotalScans = 1

\* C11: a failed scan at time t2 of a host whose previous scan, at time
\* t1 < t2, was successful increases the downtime of the host by t2 - t1 and
\* leaves its uptime as it was. Every interaction recorded so far is one of
\* this host, so the previous scan is a scan of this host.
C11_DowntimeAccumulates ==
    (/\ RecordCommitted
     /\ Range(recorded) = {last.hostKey}
     /\ Len(last.interactions) = 1
     /\ last.interactions[1].Type = InteractionTypeScan
     /\ ~last.interactions[1].Success) =>
        \A r \in HostRows(last.pre.hosts, last.hostKey) :
            LET t1 == last.pre.hosts[r].LastScan
                t2 == UnixNano(last.interactions[1].Timestamp)
            IN  (last.pre.hosts[r].LastScanSuccess /\ 0 < t1 /\ t1 < t2) =>
                    /\ db.hosts[r].Downtime = last.pre.hosts[r].Downtime + (t2 - t1)
                    /\ db.hosts[r].Uptime = last.pre.hosts[r].Uptime

\* The interaction rows of table recorded for a host key other than hk, with
\* the key they were recorded for.
OthersInteractions(table, owners, hk) ==
    LET drop == {i \in 1..Len(table) : owners[i] = hk}
    IN  KeepFrom([i \in 1..Len(table) |-> <<owners[i], table[i]>>], drop, 1)

\* C12: deleting a host removes every interaction recorded for it, keeps
\* every row of the announcement log, those of its public key included, and
\* leaves the interactions of the other hosts as they were.
C12_DeleteCascades ==
    (/\ last.op = "DeleteHost"
     /\ ~last.err
     /\ HostRows(last.pre.hosts, last.hostKey) # {}) =>
        /\ HostRows(db.hosts, last.hostKey) = {}
        /\ \A i \in 1..Len(recorded) : recorded[i] # last.hostKey
        /\ db.host_announcements = last.pre.host_announcements
        /\ OthersInteractions(db.host_interactions, recorded, last.hostKey)
                = OthersInteractions(last.pre.host_interactions, last.preRecorded,
                                     last.hostKey)

\* C13: a funding that would take the balance of the account above the
\* maximum the host advertises fails with the maximum-balance-exceeded
\* error, and a funding that fails leaves every account, persisted and in
\* memory, with the balance and drift it had.
C13_FundRefused ==
    last.op = "Fund" =>
        /\ last.balance + last.amount > MaxBalance
                => last.err = ErrMaxBalanceExceeded
        /\ last.err # "nil" => (bus = last.preBus /\ worker = last.preWorker)

C13_Witness ==
    /\ last.op = "Fund"
    /\ last.err = ErrMaxBalanceExceeded
    /\ last.balance > 0
    /\ last.amount <= MaxBalance
    /\ bus.accounts[last.id].drift # 0

\* C14: SetBalance makes the balance and the drift of the persisted account
\* the values given, together; a drift reset that succeeds makes the drift
\* zero in the worker's account and in the persisted one and changes no
\* balance, so after a SetBalance to b the persisted balance is still b.
C14_ResetDriftKeepsBalance ==
    /\ last.op = "SetBalance" =>
            /\ bus.accounts[last.id].balance = last.balance
            /\ bus.accounts[last.id].drift = last.drift
    /\ (last.op = "ResetDrift" /\ last.err = "nil") =>
            /\ worker.accounts[last.id].drift = 0
            /\ bus.accounts[last.id].drift = 0
            /\ bus.accounts[last.id].balance = last.preBus.accounts[last.id].balance
            /\ worker.accounts[last.id].balance
                    = last.preWorker.accounts[last.id].balance
            /\ last.set # <<>> => bus.accounts[last.id].balance = last.set[1]

C14_Witness ==
    /\ last.op = "ResetDrift"
    /\ last.err = "nil"
    /\ last.set # <<>>
    /\ last.preBus.accounts[last.id].drift # 0
    /\ last.preWorker.accounts[last.id].drift # 0
    /\ bus.accounts[last.id].balance > 0

\* C15: the accounts a restarted worker holds are the accounts that were
\* persisted when the cluster shut down: identifier, owner, host, balance
\* and drift.
C15_AccountsSurviveRestart ==
    last.op = "Restart" =>
        /\ worker.accounts = last.atShutdown
        /\ worker.accounts = bus.accounts

C15_Witness ==
    /\ last.op = "Restart"
    /\ DOMAIN worker.accounts = AccountIDs
    /\ \E id \in AccountIDs :
            worker.accounts[id].drift # 0 /\ worker.accounts[id].balance > 0
    /\ \E id \in AccountIDs : worker.accounts[id].drift = 0

ContractOp == last.op \in {"MineBlock", "FormContract", "RenewContract"}

\* C16: the end height of every contract, original or renewed, is its start
\* height plus the period and the renew window it was formed under, and no
\* operation, the renewal of the contract included, changes the end height
\* of a contract there is.
C16_EndHeight ==
    /\ \A i \in 1..Len(bus.contracts) :
            bus.contracts[i].endHeight
                = bus.contracts[i].startHeight + bus.contracts[i].period
                    + bus.contracts[i].renewWindow
    /\ ContractOp =>
            \A i \in 1..Len(last.preContracts) :
                /\ i <= Len(bus.contracts)
                /\ bus.contracts[i].endHeight = last.preContracts[i].endHeight

C16_Witness ==
    /\ last.op = "RenewContract"
    /\ bus.contracts[last.id].renewedFrom # NoContract
    /\ bus.contracts[bus.contracts[last.id].renewedFrom].renewedFrom # NoContract
    /\ ap.cfg.RenewWindow > 0

\* The original a contract goes back to along renewedFrom, NoContract if the
\* chain leaves the ledger.
RECURSIVE Original(_, _)
Original(contracts, i) ==
    IF i \notin 1..Len(contracts) THEN NoContract
    ELSE IF contracts[i].renewedFrom = NoContract THEN i
    ELSE IF contracts[i].renewedFrom >= i THEN NoContract
    ELSE Original(contracts, contracts[i].renewedFrom)

\* C17: a renewal adds a contract whose renewedFrom is the identifier of the
\* renewed contract and leaves every contract there was as it was; every
\* contract is fetchable by its identifier and the renewedFrom chain of every
\* contract reaches an original.
C17_RenewalKeepsOriginal ==
    /\ \A i \in 1..Len(bus.contracts) :
            /\ bus.contracts[i].id = i
            /\ Original(bus.contracts, i) # NoContract
    /\ ContractOp =>
            \A i \in 1..Len(last.preContracts) :
                i <= Len(bus.contracts) /\ bus.contracts[i] = last.preContracts[i]
    /\ last.op = "RenewContract" =>
            /\ Len(bus.contracts) = Len(last.preContracts) + 1
            /\ bus.contracts[last.id].renewedFrom = last.renewed

C17_Witness ==
    /\ last.op = "RenewContract"
    /\ Original(bus.contracts, last.id) # last.renewed
    /\ Original(bus.contracts, last.id) # NoContract
    /\ Len(bus.contracts) >= 4

C19_HostsNotScannedSince ==
    last.op = "Hosts" =>
        /\ Len(last.result) <= last.max
        /\ \A i \in 1..Len(last.result) :
                UnixNano(last.result[i].Interactions.LastScan)
                    <= UnixNano(last.notSince)

\* C20: UpdateAutopilot with an empty identifier or a configuration that
\* fails validation returns an error and writes nothing: the database, and
\* with it the config and current period of every autopilot there is, is as
\* it was before the call.
C20_InvalidAutopilotRejected ==
    (/\ last.op = "UpdateAutopilot"
     /\ (last.ap.ID = "" \/ ~Validate(last.ap.Config))) =>
        /\ last.err # "nil"
        /\ db = last.pre

C20_Witness ==
    /\ last.op = "UpdateAutopilot"
    /\ ~Validate(last.ap.Config)
    /\ last.err # "nil"
    /\ Len(db.autopilots) = 2
    /\ \E i \in 1..Len(db.autopilots) :
            /\ db.autopilots[i].Identifier = last.ap.ID
            /\ db.autopilots[i].CurrentPeriod # last.ap.CurrentPeriod

\* C21: once NewSQLStore has returned a store, consensus_infos holds exactly
\* one row, the one with primary key consensusInfoID. NewSQLStore creates it
\* with the beginning of the chain only when it is absent, and otherwise
\* returns the persisted checkpoint and leaves the database as it was; a
\* ProcessConsensusChange call, flushing or not, keeps the set of rows.
C21_OneCheckpointRow ==
    /\ last.op # "none" => DOMAIN db.consensus_infos = {consensusInfoID}
    /\ last.op = "NewSQLStore" =>
            IF consensusInfoID \in DOMAIN last.pre.consensus_infos
            THEN /\ last.ccid = Checkpoint(last.pre)
                 /\ db = last.pre
            ELSE /\ last.ccid = ConsensusChangeBeginning
                 /\ Checkpoint(db) = ConsensusChangeBeginning
    /\ last.op = "ProcessConsensusChange" =>
            DOMAIN db.consensus_infos = DOMAIN last.pre.consensus_infos

C21_Witness ==
    /\ last.op = "NewSQLStore"
    /\ consensusInfoID \in DOMAIN last.pre.consensus_infos
    /\ last.ccid >= 2
    /\ Checkpoint(db) = last.ccid

\* C22: a ProcessConsensusChange call attempts a flush exactly when, with the
\* announcements of the call appended, the time since the last committed
\* flush (since the store was opened, before the first) exceeds the persist
\* interval or the buffer holds at least announcementBatchSoftLimit
\* announcements; a flush that failed does not restart the interval.
C22_FlushWhenDue ==
    last.op = "ProcessConsensusChange" =>
        (last.flush <=>
            \/ last.sinceCommit > last.persistInterval
            \/ Len(last.buffered) >= announcementBatchSoftLimit)

\* The number of announcements in the blocks before position i.
RECURSIVE AnnouncementsBefore(_, _)
AnnouncementsBefore(blocks, i) ==
    IF i <= 1 THEN 0
    ELSE AnnouncementsBefore(blocks, i - 1) + Len(blocks[i - 1].Announcements)

\* C23: for a consensus change with initial height h, r reverted blocks and
\* applied blocks b_0..b_{n-1}, the call appends to the buffer exactly the
\* announcements of the applied blocks, in block order, each announcement of
\* b_i with height h - r + i and the ID of b_i, and nothing for a reverted
\* block.
C23_AnnouncementHeights ==
    last.op = "ProcessConsensusChange" =>
        LET applied == last.cc.AppliedBlocks
            n == Len(applied)
            base == last.cc.InitialHeight - Len(last.cc.RevertedBlocks)
            before == Len(last.unapplied)
        IN  /\ Len(last.buffered) = before + AnnouncementsBefore(applied, n + 1)
            /\ SubSeq(last.buffered, 1, before) = last.unapplied
            /\ \A i \in 1..n : \A j \in 1..Len(applied[i].Announcements) :
                    LET a == last.buffered[before + AnnouncementsBefore(applied, i) + j]
                    IN  /\ a.announcement.Index.Height = base + (i - 1)
                        /\ a.announcement.Index.ID = applied[i].ID
                        /\ a.hostKey = applied[i].Announcements[j].hostKey
                        /\ a.announcement.NetAddress
                                = applied[i].Announcements[j].NetAddress

C23_Witness ==
    /\ last.op = "ProcessConsensusChange"
    /\ Len(last.cc.RevertedBlocks) >= 1
    /\ last.cc.RevertedBlocks[1].Announcements # <<>>
    /\ last.unapplied # <<>>
    /\ Len(last.cc.AppliedBlocks) >= 2
    /\ Len(last.buffered) > Len(last.unapplied)
    /\ last.buffered[Len(last.buffered)].announcement.Index.Height
            = last.cc.InitialHeight

\* A committed call that recorded one scan for the only host interactions
\* were ever recorded for: the previous scan of the row is a scan of the host.
OneScanCommitted ==
    /\ RecordCommitted
    /\ Range(recorded) = {last.hostKey}
    /\ Len(last.interactions) = 1
    /\ last.interactions[1].Type = InteractionTypeScan

\* C24: a scan at time t2 of a host whose previous scan was at time t1 < t2
\* adds t2 - t1 to the uptime of the host when the previous scan was
\* successful and to its downtime otherwise, whatever the outcome of the new
\* scan, and leaves the other of the two as it was.
C24_PreviousScanPicksColumn ==
    OneScanCommitted =>
        \A r \in HostRows(last.pre.hosts, last.hostKey) :
            LET h == last.pre.hosts[r]
                t2 == UnixNano(last.interactions[1].Timestamp)
            IN  (0 < h.LastScan /\ h.LastScan < t2) =>
                    IF h.LastScanSuccess
                    THEN /\ db.hosts[r].Uptime = h.Uptime + (t2 - h.LastScan)
                         /\ db.hosts[r].Downtime = h.Downtime
                    ELSE /\ db.hosts[r].Downtime = h.Downtime + (t2 - h.LastScan)
                         /\ db.hosts[r].Uptime = h.Uptime

\* Every interaction in the log is a scan of host hk, and the scans are at
\* increasing times.
OnlyScansOf(hk) ==
    /\ Range(recorded) = {hk}
    /\ \A i \in 1..Len(db.host_interactions) :
            db.host_interactions[i].Type = InteractionTypeScan
    /\ \A i \in 1..(Len(db.host_interactions) - 1) :
            UnixNano(db.host_interactions[i].Timestamp)
                < UnixNano(db.host_interactions[i + 1].Timestamp)

\* C25: uptime and downtime accumulate. A scan of a host with a previous
\* scan adds the elapsed time to exactly one of the two and leaves the other
\* as it was, so that after scans of one host at increasing times
\* t_1 < ... < t_n its uptime and downtime add up to t_n - t_1.
C25_UptimePlusDowntime ==
    /\ OneScanCommitted =>
            \A r \in HostRows(last.pre.hosts, last.hostKey) :
                LET h == last.pre.hosts[r]
                    e == UnixNano(last.interactions[1].Timestamp) - h.LastScan
                IN  (0 < h.LastScan /\ 0 < e) =>
                        \/ /\ db.hosts[r].Uptime = h.Uptime + e
                           /\ db.hosts[r].Downtime = h.Downtime
                        \/ /\ db.hosts[r].Downtime = h.Downtime + e
                           /\ db.hosts[r].Uptime = h.Uptime
    /\ \A hk \in HostKeys :
            OnlyScansOf(hk) =>
                \A r \in HostRows(db.hosts, hk) :
                    db.hosts[r].Uptime + db.hosts[r].Downtime
                        = UnixNano(db.host_interactions[Len(db.host_interactions)].Timestamp)
                            - UnixNano(db.host_interactions[1].Timestamp)

\* C26: a committed RecordHostInteractions(hostKey, interactions) changes
\* only the row of hostKey: every other row of hosts has all its fields as
\* they were before the call, whether the interactions are scans or not.
C26_OtherHostsUnchanged ==
    RecordCommitted =>
        /\ Len(db.hosts) = Len(last.pre.hosts)
        /\ \A r \in 1..Len(last.pre.hosts) :
                last.pre.hosts[r].PublicKey # last.hostKey =>
                    db.hosts[r] = last.pre.hosts[r]

\* C27: the stored settings of a host are replaced only by a successful
\* scan: after one they are the settings decoded from the result of the
\* scan, and a failed scan or an interaction that is not a scan leaves them
\* as they were. Every interaction recorded so far is one of this host.
C27_SettingsOnlyOnSuccess ==
    (/\ RecordCommitted
     /\ Range(recorded) = {last.hostKey}
     /\ Len(last.interactions) = 1) =>
        \A r \in HostRows(last.pre.hosts, last.hostKey) :
            LET i == last.interactions[1]
            IN  IF i.Type = InteractionTypeScan /\ i.Success
                THEN db.hosts[r].Settings
                        = convertHostSettings(DecodeScanResult(i.Result).Settings)
                ELSE db.hosts[r].Settings = last.pre.hosts[r].Settings

\* C28: RecordHostInteractions is all or nothing. A call that returns an
\* error, for a scan result that does not decode, a failed insert of the
\* interactions, a failed host update or a failed commit, leaves the database
\* as it was: no interaction row of the batch, no host field changed.
C28_RecordAllOrNothing ==
    (last.op = "RecordHostInteractions" /\ last.err) =>
        /\ db.host_interactions = last.pre.host_interactions
        /\ db.hosts = last.pre.hosts
        /\ db = last.pre

C28_Witness ==
    /\ last.op = "RecordHostInteractions"
    /\ last.err
    /\ ~PrepareFails(last.interactions)
    /\ ScanCount(last.interactions) >= 1
    /\ Len(last.interactions) = 2
    /\ db.host_interactions # <<>>
    /\ \E r \in HostRows(db.hosts, last.hostKey) : db.hosts[r].TotalScans = 1

LogRows == Range(db.host_announcements)

\* The log holds a row for every announcement of the changes 1..k and the
\* persisted checkpoint is change k or a later one.
PersistedUpTo(k) ==
    /\ consensusInfoID \in DOMAIN db.consensus_infos
    /\ Checkpoint(db) >= k
    /\ Range(ExpectedLog(chain, k)) \subseteq LogRows

\* C30: while changes keep arriving, time advances and flush transactions
\* succeed, every announcement in the buffer is eventually persisted, with a
\* checkpoint at or after its change; and the log and the checkpoint change
\* in no step other than a ProcessConsensusChange call that flushes, so that
\* without a further call what is buffered stays unpersisted.
C30_EventuallyPersisted ==
    /\ \A k \in 1..MaxCC :
            (/\ store.open
             /\ store.unappliedCCID = k
             /\ store.unappliedAnnouncements # <<>>) ~> PersistedUpTo(k)
    /\ [][(\/ db.host_announcements' # db.host_announcements
           \/ /\ consensusInfoID \in DOMAIN db.consensus_infos
              /\ Checkpoint(db') # Checkpoint(db))
            => (last'.op = "ProcessConsensusChange" /\ last'.flush)]_vars

C30_Witness ==
    /\ FlushCommitted
    /\ last.unapplied # <<>>
    /\ Len(last.buffered) < announcementBatchSoftLimit
    /\ PersistedUpTo(last.cc.ID)
    /\ Checkpoint(last.pre) < last.cc.ID - 1

====
